---- MODULE Spec2Model ----
(***************************************************************************)
(* The mark-and-sweep collector of src/core/gc.c as a state machine.       *)
(*                                                                         *)
(* Memory is a finite pool of addresses.  malloc may hand out any address  *)
(* that is not currently allocated, so an address freed by the sweeper can *)
(* come back as a different block while stale pointers to it still sit in  *)
(* surviving blocks.  Each API function is one action; the host program    *)
(* (evaluator, constructors, C functions) is the environment that          *)
(* allocates, stores references, registers the active fiber, pins and      *)
(* unpins.                                                                 *)
(***************************************************************************)
EXTENDS Integers, Sequences, FiniteSets, TLC

\* ------------------------------------------------------------------ bounds
MaxAddr == 4        \* addresses of the memory
Pool == 3           \* addresses malloc hands out to a host with few kinds of block
SmallPool == 2      \* addresses it hands out to a host with many kinds of block
MaxSlots == 1       \* value slots of an aggregate (data, constants, envs, frame)
MaxFrames == 1      \* stack frames of a fiber
MaxPending == 1     \* cap on the low 30 bits of the allocation counter
MaxLogged == 1      \* collections a host's pin log counts up to
MaxMarks == 2       \* times one header may be marked before marking is cut off

\* ------------------------------------------------------------------ types
NULL == 0
Addr == 1..MaxAddr

\* A uint32_t, kept as its top two bits and its low 30 bits so that the sum of
\* two of them stays below 2^31: the value is hi * 2^30 + lo.
TwoTo30 == 1073741824
U32(h, l) == [hi |-> h, lo |-> l]
\* x + y in uint32_t arithmetic (modulo 2^32).
AddU32(x, y) ==
  LET l == x.lo + y.lo IN
  U32((x.hi + y.hi + (l \div TwoTo30)) % 4, l % TwoTo30)

\* DstMemoryType: the type tag of a block header.
MemoryTypes ==
  {"STRING", "SYMBOL", "ARRAY", "TABLE", "TUPLE", "STRUCT", "BUFFER",
   "FIBER", "FUNCTION", "FUNCDEF", "FUNCENV", "USERDATA"}

\* DstType values that carry a heap pointer (the cases of dst_mark).
HeapValueTypes ==
  {"STRING", "SYMBOL", "FUNCTION", "ARRAY", "TABLE", "STRUCT", "TUPLE",
   "BUFFER", "FIBER", "USERDATA"}

InternedTypes == {"STRING", "SYMBOL", "TUPLE", "STRUCT"}

\* A DstValue: a type tag and a payload.  Only the pointer payload matters here.
Value(t, p) == [type |-> t, ptr |-> p]
Nil == Value("NIL", NULL)

\* The header's flags: the type tag, DST_MEM_REACHABLE and DST_MEM_DISABLED.
Flags(t) == [type |-> t, reachable |-> FALSE, disabled |-> FALSE]

NilSlots == [i \in 1..MaxSlots |-> Nil]

\* A stack frame of a fiber: the frame header's func and the frame's value slots.
Frame(f, s) == [func |-> f, slots |-> s]

\* A block: DstGCMemoryHeader followed by the body of its kind.  Fields a kind
\* does not have keep the values given here.
Block(t) ==
  [flags |-> Flags(t), next |-> NULL,
   data |-> << >>,                \* ARRAY/TABLE data, TUPLE/STRUCT slots, FUNCENV as.values
   offset |-> 0, fiber |-> NULL,  \* FUNCENV
   def |-> NULL, hasEnvs |-> FALSE, envs |-> << >>,  \* FUNCTION
   hasConstants |-> FALSE, constants |-> << >>, environments_length |-> 0, \* FUNCDEF
   frames |-> << >>, parent |-> NULL, ret |-> Nil,   \* FIBER
   finalize |-> FALSE]            \* USERDATA: type->finalize is non-null

\* Memory that is not allocated (never handed out, or freed).
FreeCell == Block("NONE")

\* One step of a collection, as the host can observe it: the operation, the
\* block, and a detail (the value's type for an interner remove, the part for
\* a secondary free, "pinned" for the finalization of a pinned block).
Event(o, b, t) == [op |-> o, blk |-> b, as |-> t]

\* ------------------------------------------------------------------ state
VARIABLES
  mem,                      \* Addr -> block
  dst_vm_blocks,            \* head of the allocation list
  dst_vm_next_collection,   \* bytes allocated since the last collection (uint32)
  dst_vm_fiber,             \* the active fiber, or NULL
  dst_vm_cache,             \* the interner: the values registered in it
  trace,                    \* what the last collect/clear_memory did, in order
  crashed,                  \* the process died in undefined behaviour
  gc,                       \* the mark phase in progress, when it is run call by call
  pinlog,                   \* per address: the log of a host that keeps one
  sizelog,                  \* the sizes asked of dst_alloc since the last collect(),
                            \* for a host that keeps count
  born,                     \* the allocated blocks in the order dst_alloc returned them
  repertoire                \* the kinds of block this host program allocates

vars == <<mem, dst_vm_blocks, dst_vm_next_collection, dst_vm_fiber,
          dst_vm_cache, trace, crashed, gc, pinlog, sizelog, born, repertoire>>

Allocated(m, a) == a \in Addr /\ m[a].flags.type # "NONE"

\* ------------------------------------------------------------------ marking
\* The marking state: the memory (only the reachable bits change), the calls
\* still to be made, first to be made first (the C recursion's pending calls:
\* a routine's calls to its children go before what its caller has left to
\* do), whether a pointer was followed that does not point to a live block of
\* the expected kind, what such a read does, and how many times each header
\* has been marked.
MarkState(m, u) ==
  [mem |-> m, work |-> << >>, ub |-> FALSE, mode |-> u, marks |-> [a \in Addr |-> 0]]

\* No mark phase is in progress.
Idle == [MarkState(<< >>, "idle") EXCEPT !.marks = << >>]

\* A pending call: the routine (named by the kind it marks) and its argument.
Call(t, p) == [type |-> t, ptr |-> p]

\* The calls `calls`, in order, before everything already pending.
Push(st, calls) == [st EXCEPT !.work = calls \o @]

dst_gc_reachable(st, a) == st.mem[a].flags.reachable

dst_gc_mark(st, a) ==
  [st EXCEPT !.mem[a].flags.reachable = TRUE, !.marks[a] = @ + 1]

Valid(st, p, K) == Allocated(st.mem, p) /\ st.mem[p].flags.type \in K

\* A mark routine was handed a pointer p that is not a live block of the kind
\* it expects: undefined behaviour.  The header write lands on whatever block
\* now lives at p (or on freed memory); the body is read through the wrong
\* layout.  mode "header": the garbage read yields no children.  mode
\* "follow": the body happens to read as the children of the block that lives
\* there.  mode "crash": the process dies (decided by the caller from ub).
Wild(st, p) ==
  LET s1 == [st EXCEPT !.ub = TRUE] IN
  IF ~Allocated(st.mem, p) THEN s1
  ELSE IF st.mode = "follow" THEN Push(s1, <<Call(st.mem[p].flags.type, p)>>)
  ELSE dst_gc_mark(s1, p)

dst_mark_string(st, str) ==
  IF ~Valid(st, str, {"STRING", "SYMBOL"}) THEN Wild(st, str)
  ELSE dst_gc_mark(st, str)

dst_mark_buffer(st, buffer) ==
  IF ~Valid(st, buffer, {"BUFFER"}) THEN Wild(st, buffer)
  ELSE dst_gc_mark(st, buffer)

dst_mark_udata(st, udata) ==
  IF ~Valid(st, udata, {"USERDATA"}) THEN Wild(st, udata)
  ELSE dst_gc_mark(st, udata)

\* dst_mark_many(values, n): a call of dst_mark on each value, in order.
dst_mark_many(st, values) == Push(st, values)

dst_mark_array(st, array) ==
  IF ~Valid(st, array, {"ARRAY"}) THEN Wild(st, array)
  ELSE IF dst_gc_reachable(st, array) THEN st
  ELSE dst_mark_many(dst_gc_mark(st, array), st.mem[array].data)

\* The routine without the test of the reachable bit.
dst_mark_table_NoTest(st, table) ==
  IF ~Valid(st, table, {"TABLE"}) THEN Wild(st, table)
  ELSE dst_mark_many(dst_gc_mark(st, table), st.mem[table].data)

dst_mark_table(st, table) ==
  IF ~Valid(st, table, {"TABLE"}) THEN Wild(st, table)
  ELSE IF dst_gc_reachable(st, table) THEN st
  ELSE dst_mark_many(dst_gc_mark(st, table), st.mem[table].data)

dst_mark_struct(st, s) ==
  IF ~Valid(st, s, {"STRUCT"}) THEN Wild(st, s)
  ELSE IF dst_gc_reachable(st, s) THEN st
  ELSE dst_mark_many(dst_gc_mark(st, s), st.mem[s].data)

dst_mark_tuple(st, tuple) ==
  IF ~Valid(st, tuple, {"TUPLE"}) THEN Wild(st, tuple)
  ELSE IF dst_gc_reachable(st, tuple) THEN st
  ELSE dst_mark_many(dst_gc_mark(st, tuple), st.mem[tuple].data)

dst_mark_funcenv(st, env) ==
  IF ~Valid(st, env, {"FUNCENV"}) THEN Wild(st, env)
  ELSE IF dst_gc_reachable(st, env) THEN st
  ELSE LET s1 == dst_gc_mark(st, env) IN
       IF st.mem[env].offset # 0
       THEN Push(s1, <<Call("FIBER", st.mem[env].fiber)>>)
       ELSE dst_mark_many(s1, st.mem[env].data)

\* The call made for a constant of a funcdef: a boolean-tagged constant is a
\* nested funcdef, any other is a value.
ConstantCall(v) == IF v.type = "BOOLEAN" THEN Call("FUNCDEF", v.ptr) ELSE v

dst_mark_funcdef(st, def) ==
  IF ~Valid(st, def, {"FUNCDEF"}) THEN Wild(st, def)
  ELSE IF dst_gc_reachable(st, def) THEN st
  ELSE LET s1 == dst_gc_mark(st, def)
           constants == st.mem[def].constants
       IN IF st.mem[def].hasConstants
          THEN Push(s1, [i \in 1..Len(constants) |-> ConstantCall(constants[i])])
          ELSE s1

\* The calls of dst_mark_function's loop over envs[0..numenvs]: one per
\* non-null entry.
EnvCalls(envs, numenvs) ==
  LET n == IF numenvs < Len(envs) THEN numenvs ELSE Len(envs)
      keep == {i \in 1..n : envs[i] # NULL}
      RECURSIVE From(_)
      From(i) == IF i > n THEN << >>
                 ELSE IF i \in keep THEN <<Call("FUNCENV", envs[i])>> \o From(i + 1)
                 ELSE From(i + 1)
  IN From(1)

dst_mark_function(st, func) ==
  IF ~Valid(st, func, {"FUNCTION"}) THEN Wild(st, func)
  ELSE IF dst_gc_reachable(st, func) THEN st
  ELSE LET s1 == dst_gc_mark(st, func)
           d == st.mem[func].def
       IN \* numenvs = func->def->environments_length reads through def
          IF ~Valid(st, d, {"FUNCDEF"}) THEN Wild(s1, d)
          ELSE Push(s1, (IF st.mem[func].hasEnvs
                         THEN EnvCalls(st.mem[func].envs, st.mem[d].environments_length)
                         ELSE << >>)
                        \o <<Call("FUNCDEF", d)>>)

\* The calls of dst_mark_fiber's walk down the frame chain, from the current
\* frame to the sentinel: the frame's func if it has one, then its slots.
FrameCalls(frames) ==
  LET RECURSIVE From(_)
      From(i) == IF i = 0 THEN << >>
                 ELSE (IF frames[i].func # NULL
                       THEN <<Call("FUNCTION", frames[i].func)>> ELSE << >>)
                      \o frames[i].slots \o From(i - 1)
  IN From(Len(frames))

dst_mark_fiber(st, fiber) ==
  IF ~Valid(st, fiber, {"FIBER"}) THEN Wild(st, fiber)
  ELSE IF dst_gc_reachable(st, fiber) THEN st
  ELSE LET b == st.mem[fiber] IN
       Push(dst_gc_mark(st, fiber),
            FrameCalls(b.frames)
            \o (IF b.parent # NULL THEN <<Call("FIBER", b.parent)>> ELSE << >>)
            \o <<b.ret>>)

dst_mark(st, x) ==
  CASE x.type \in {"STRING", "SYMBOL"} -> dst_mark_string(st, x.ptr)
    [] x.type = "FUNCTION" -> dst_mark_function(st, x.ptr)
    [] x.type = "ARRAY" -> dst_mark_array(st, x.ptr)
    [] x.type = "TABLE" -> dst_mark_table(st, x.ptr)
    [] x.type = "STRUCT" -> dst_mark_struct(st, x.ptr)
    [] x.type = "TUPLE" -> dst_mark_tuple(st, x.ptr)
    [] x.type = "BUFFER" -> dst_mark_buffer(st, x.ptr)
    [] x.type = "FIBER" -> dst_mark_fiber(st, x.ptr)
    [] x.type = "USERDATA" -> dst_mark_udata(st, x.ptr)
    [] OTHER -> st

\* Make the first pending call.
MarkStep(st) ==
  LET x == Head(st.work)
      s1 == [st EXCEPT !.work = Tail(@)]
  IN CASE x.type = "FUNCDEF" -> dst_mark_funcdef(s1, x.ptr)
       [] x.type = "FUNCENV" -> dst_mark_funcenv(s1, x.ptr)
       [] OTHER -> dst_mark(s1, x)

RECURSIVE MarkLoop(_)
\* Run the pending calls until none is left.
MarkLoop(st) == IF st.work = << >> THEN st ELSE MarkLoop(MarkStep(st))

\* ------------------------------------------------------------------ finalizing
\* The state threaded through sweep and clear_memory.
SweepState(m, h, c, t) == [mem |-> m, head |-> h, cache |-> c, trace |-> t]

Log(st, o, b, t) == [st EXCEPT !.trace = Append(@, Event(o, b, t))]

\* The interner's remove(value): drops that value's entry if it has one.
dst_cache_remove(st, v) ==
  [Log(st, "cache_remove", v.ptr, v.type) EXCEPT !.cache = @ \ {v}]

\* free() of a secondary allocation of the block.
FreeSecondary(st, b, what) == Log(st, "free_secondary", b, what)

\* free() of the block itself: the memory goes back to the allocator.
FreeBlock(st, b) == [Log(st, "free", b, "") EXCEPT !.mem[b] = FreeCell]

\* dst_deinit_block with an environment that frees the stack it lives on.
dst_deinit_block_EnvFreesStack(st0, block) ==
  LET st == Log(st0, "deinit", block,
               IF st0.mem[block].flags.disabled THEN "pinned" ELSE "")
      b == st.mem[block]
      t == b.flags.type
  IN CASE t = "STRING" -> dst_cache_remove(st, Value("STRING", block))
       [] t = "ARRAY" -> FreeSecondary(st, block, "data")
       [] t = "TUPLE" -> dst_cache_remove(st, Value("TUPLE", block))
       [] t = "TABLE" -> FreeSecondary(st, block, "data")
       [] t = "STRUCT" -> dst_cache_remove(st, Value("STRUCT", block))
       [] t = "FIBER" -> FreeSecondary(st, block, "data")
       [] t = "BUFFER" -> FreeSecondary(st, block, "data")
       [] t = "FUNCTION" -> FreeSecondary(st, block, "envs")
       [] t = "USERDATA" ->
            IF b.finalize THEN Log(st, "finalize", block, "") ELSE st
       [] t = "FUNCENV" ->
            IF b.offset = 0 THEN FreeSecondary(st, block, "values")
            ELSE FreeSecondary(st, b.fiber, "data")
       [] t = "FUNCDEF" ->
            FreeSecondary(FreeSecondary(FreeSecondary(st, block, "environments"),
                                        block, "constants"), block, "bytecode")
       [] OTHER -> st

\* dst_deinit_block(block): the finalization of a block, by its kind.
dst_deinit_block(st0, block) ==
  LET st == Log(st0, "deinit", block,
               IF st0.mem[block].flags.disabled THEN "pinned" ELSE "")
      b == st.mem[block]
      t == b.flags.type
  IN CASE t = "STRING" -> dst_cache_remove(st, Value("STRING", block))
       [] t = "ARRAY" -> FreeSecondary(st, block, "data")
       [] t = "TUPLE" -> dst_cache_remove(st, Value("TUPLE", block))
       [] t = "TABLE" -> FreeSecondary(st, block, "data")
       [] t = "STRUCT" -> dst_cache_remove(st, Value("STRUCT", block))
       [] t = "FIBER" -> FreeSecondary(st, block, "data")
       [] t = "BUFFER" -> FreeSecondary(st, block, "data")
       [] t = "FUNCTION" -> FreeSecondary(st, block, "envs")
       [] t = "USERDATA" ->
            IF b.finalize THEN Log(st, "finalize", block, "") ELSE st
       [] t = "FUNCENV" ->
            IF b.offset = 0 THEN FreeSecondary(st, block, "values") ELSE st
       [] t = "FUNCDEF" ->
            FreeSecondary(FreeSecondary(FreeSecondary(st, block, "environments"),
                                        block, "constants"), block, "bytecode")
       [] OTHER -> st

\* ------------------------------------------------------------------ sweep
\* The test without the pinned bit.
Keep_OnlyReachable(f) == f.reachable

\* The test of the sweep loop: the block is kept if it is marked or pinned.
Keep(f) == f.reachable \/ f.disabled

\* The branch without the call of dst_deinit_block.
SweepFree_NoDeinit(st, previous, current, next) ==
  LET u == IF previous # NULL
           THEN [st EXCEPT !.mem[previous].next = next]
           ELSE [st EXCEPT !.head = next]
  IN FreeBlock(u, current)

\* The branch for a block that is not kept, unlinking as if the block were
\* always the head (no use of `previous`).
SweepFree_HeadOnly(st, previous, current, next) ==
  FreeBlock([dst_deinit_block(st, current) EXCEPT !.head = next], current)

\* The branch of the sweep loop for a block that is not kept: finalize it,
\* unlink it from the list, free it.
SweepFree(st, previous, current, next) ==
  LET d == dst_deinit_block(st, current)
      u == IF previous # NULL
           THEN [d EXCEPT !.mem[previous].next = next]
           ELSE [d EXCEPT !.head = next]
  IN FreeBlock(u, current)

\* The flag write made only on the path that freed the block.
ClearReachable_OnlyFreed(st, current) ==
  IF Allocated(st.mem, current) THEN st
  ELSE Log(st, "write_after_free", current, "flags")

\* current->flags &= ~DST_MEM_REACHABLE, made on every path of the loop body:
\* after the free it is a write into memory the allocator owns.
ClearReachable(st, current) ==
  IF Allocated(st.mem, current)
  THEN [st EXCEPT !.mem[current].flags.reachable = FALSE]
  ELSE Log(st, "write_after_free", current, "flags")

RECURSIVE SweepLoop(_, _, _)
\* The while loop of dst_sweep, from `current` with the trailing `previous`.
SweepLoop(st, previous, current) ==
  IF current = NULL THEN st
  ELSE LET next == st.mem[current].next
           keep == Keep(st.mem[current].flags)
           s1 == IF keep THEN st ELSE SweepFree(st, previous, current, next)
           s2 == ClearReachable(s1, current)
       IN SweepLoop(s2, IF keep THEN current ELSE previous, next)

dst_sweep(st) == SweepLoop(st, NULL, st.head)

RECURSIVE ClearLoop(_, _)
\* The while loop of dst_clear_memory.
ClearLoop(st, current) ==
  IF current = NULL THEN st
  ELSE LET d == dst_deinit_block(st, current)
           next == d.mem[current].next
       IN ClearLoop(FreeBlock(d, current), next)

\* ------------------------------------------------------------------ the list
RECURSIVE ListFrom(_, _, _)
\* The blocks met by following next from a, at most n of them.
ListFrom(m, a, n) ==
  IF a = NULL \/ n = 0 THEN << >>
  ELSE <<a>> \o ListFrom(m, m[a].next, n - 1)

\* A sequence from its last element to its first.
Reverse(s) == [i \in 1..Len(s) |-> s[Len(s) + 1 - i]]

BlockList == ListFrom(mem, dst_vm_blocks, MaxAddr + 1)
OnList(a) == \E i \in 1..Len(BlockList) : BlockList[i] = a

\* ------------------------------------------------------------------ the host
Live == {a \in Addr : Allocated(mem, a)}
LiveOf(K) == {a \in Live : mem[a].flags.type \in K}

\* The values the host can hold: nil and a well-typed pointer to a live block.
HostValues == {Nil} \cup {Value(mem[a].flags.type, a) : a \in LiveOf(HeapValueTypes)}

\* What a funcdef's constant can be: a value, or a nested funcdef under the
\* boolean tag.
HostConstants == HostValues \cup {Value("BOOLEAN", d) : d \in LiveOf({"FUNCDEF"})}

\* The bodies a constructor gives a fresh block of kind t.  Mutable aggregates
\* start empty (nil slots); immutable ones get their slots here; a function
\* gets its def and an environment gets its fiber.
NewBodies(t) ==
  CASE t \in {"ARRAY", "TABLE"} -> {[Block(t) EXCEPT !.data = NilSlots]}
    [] t \in {"TUPLE", "STRUCT"} ->
         {[Block(t) EXCEPT !.data = d] : d \in [1..MaxSlots -> HostValues]}
    [] t = "USERDATA" -> {[Block(t) EXCEPT !.finalize = f] : f \in BOOLEAN}
    [] t = "FUNCDEF" ->
         {Block(t)} \cup
         {[Block(t) EXCEPT !.hasConstants = TRUE, !.constants = NilSlots,
                           !.environments_length = MaxSlots] :
            x \in repertoire.fields \cap {"constants"}}
    [] t = "FUNCTION" ->
         {[Block(t) EXCEPT !.def = d, !.hasEnvs = h,
                           !.envs = IF h THEN [i \in 1..mem[d].environments_length |-> NULL]
                                    ELSE << >>] :
            d \in LiveOf({"FUNCDEF"}),
            h \in {FALSE} \cup {TRUE : x \in repertoire.fields \cap {"envs"}}}
    [] t = "FUNCENV" ->
         {[Block(t) EXCEPT !.data = NilSlots]}
         \cup {[Block(t) EXCEPT !.offset = 1, !.fiber = f] : f \in LiveOf({"FIBER"})}
    [] t = "FIBER" ->
         {[Block(t) EXCEPT !.frames = [i \in 1..n |-> Frame(NULL, NilSlots)]] :
            n \in IF repertoire.fields \cap {"func", "slots"} = {} THEN {0}
                  ELSE 1..MaxFrames}
    [] OTHER -> {Block(t)}


\* The host's log for an address: whether the block there was never pinned,
\* is pinned, or was pinned and then unpinned, and how many collect() calls
\* returned while it was pinned (counted up to MaxLogged).
NoLog == [pin |-> "never", collects |-> 0]

\* The sizes the host asks for: 1 byte and 2^31 bytes.
Small == U32(0, 1)
Huge == U32(2, 0)

\* The host programs.  Each allocates blocks of a few kinds, out of a
\* pool of addresses, and uses some of the optional reference fields: a
\* fiber's frame func, frame slots, parent link and ret value, a funcdef's
\* constants, a function's envs.
Host(k, f, n, z) ==
  [kinds |-> k, fields |-> f, pool |-> 1..n, sizes |-> z, log |-> FALSE,
   count |-> FALSE, interval |-> U32(0, 0)]
Repertoires ==
  {Host({"FIBER", "STRING"}, {"slots"}, Pool, {Huge}),
   Host({"FIBER", "FUNCTION", "FUNCDEF"}, {"func"}, Pool, {Huge}),
   Host({"FUNCTION", "FUNCDEF", "FUNCENV"}, {"constants", "envs"}, Pool, {Huge}),
   Host({"FIBER", "FUNCENV"}, {"slots"}, SmallPool, {Huge}),
   Host({"FIBER", "ARRAY", "TABLE"}, {"parent", "ret"}, SmallPool, {Huge}),
   Host({"FIBER", "SYMBOL", "TUPLE", "STRUCT"}, {"ret"}, SmallPool, {Huge}),
   Host({"TABLE", "BUFFER", "USERDATA"}, {}, SmallPool, {Small, Huge}),
   Host({"BUFFER"}, {}, Pool, {Small, Huge})}

\* ------------------------------------------------------------------ actions
\* The state after start-up of one of the host programs R.
InitWith(R) ==
  /\ mem = [a \in Addr |-> FreeCell]
  /\ dst_vm_blocks = NULL
  /\ dst_vm_next_collection = U32(0, 0)
  /\ dst_vm_fiber = NULL
  /\ dst_vm_cache = {}
  /\ trace = << >>
  /\ crashed = FALSE
  /\ gc = Idle
  /\ pinlog = [a \in Addr |-> NoLog]
  /\ sizelog = << >>
  /\ born = << >>
  /\ repertoire \in R

Init == InitWith(Repertoires)

\* dst_alloc linking the new block behind the head of a list that has one.
dst_alloc_LinksSecond(m, head, next_collection, t, size, a) ==
  IF head = NULL
  THEN [mem |-> [m EXCEPT ![a] = [Block(t) EXCEPT !.flags = Flags(t)]],
        head |-> a,
        next_collection |-> AddU32(next_collection, size)]
  ELSE [mem |-> [m EXCEPT ![a] = [Block(t) EXCEPT !.flags = Flags(t),
                                                  !.next = m[head].next],
                          ![head].next = a],
        head |-> head,
        next_collection |-> AddU32(next_collection, size)]

\* dst_alloc without the addition to the counter.
dst_alloc_NoCount(m, head, next_collection, t, size, a) ==
  [mem |-> [m EXCEPT ![a] = [Block(t) EXCEPT !.flags = Flags(t), !.next = head]],
   head |-> a,
   next_collection |-> next_collection]

\* dst_alloc without the store to the new block's next field.
dst_alloc_NoLink(m, head, next_collection, t, size, a) ==
  [mem |-> [m EXCEPT ![a] = [Block(t) EXCEPT !.flags = Flags(t)]],
   head |-> a,
   next_collection |-> AddU32(next_collection, size)]

\* dst_alloc(type, size) with malloc returning address a: the header gets the
\* bare type tag, the counter grows by size, the block goes to the head of
\* the list.
dst_alloc(m, head, next_collection, t, size, a) ==
  [mem |-> [m EXCEPT ![a] = [Block(t) EXCEPT !.flags = Flags(t), !.next = head]],
   head |-> a,
   next_collection |-> AddU32(next_collection, size)]

\* dst_alloc(type, size) returning address a, then the constructor's
\* initialisation of the body (and the interning of an interned kind).
Alloc ==
  /\ ~crashed
  /\ \E t \in repertoire.kinds, size \in repertoire.sizes, a \in repertoire.pool \ Live :
       /\ dst_vm_next_collection.lo + size.lo <= MaxPending
       /\ LET r == dst_alloc(mem, dst_vm_blocks, dst_vm_next_collection, t, size, a) IN
            /\ \E body \in NewBodies(t) :
                 mem' = [r.mem EXCEPT ![a] = [body EXCEPT !.flags = r.mem[a].flags,
                                                         !.next = r.mem[a].next]]
            /\ dst_vm_next_collection' = r.next_collection
            /\ dst_vm_blocks' = r.head
       /\ pinlog' = [pinlog EXCEPT ![a] = NoLog]
       /\ sizelog' = IF repertoire.count THEN Append(sizelog, size) ELSE sizelog
       /\ born' = Append(born, a)
       /\ dst_vm_cache' = IF t \in InternedTypes
                          THEN dst_vm_cache \cup {Value(t, a)}
                          ELSE dst_vm_cache
  /\ trace' = << >>
  /\ UNCHANGED <<dst_vm_fiber, crashed, gc, repertoire>>

\* The host writes a reference into a mutable field of a live block.
Store ==
  /\ ~crashed
  /\ \/ \E a \in LiveOf({"ARRAY", "TABLE"}), i \in 1..MaxSlots, v \in HostValues :
          mem' = [mem EXCEPT ![a].data[i] = v]
     \/ \E a \in LiveOf({"FUNCENV"}), i \in 1..MaxSlots, v \in HostValues :
          /\ mem[a].offset = 0
          /\ mem' = [mem EXCEPT ![a].data[i] = v]
     \/ \E a \in LiveOf({"FUNCDEF"}), i \in 1..MaxSlots, v \in HostConstants :
          /\ mem[a].hasConstants
          /\ mem' = [mem EXCEPT ![a].constants[i] = v]
     \/ \E a \in LiveOf({"FUNCTION"}), i \in 1..MaxSlots,
           e \in LiveOf({"FUNCENV"}) \cup {NULL} :
          /\ i <= Len(mem[a].envs)
          /\ mem' = [mem EXCEPT ![a].envs[i] = e]
     \/ \E a \in LiveOf({"FIBER"}), v \in HostValues :
          /\ "ret" \in repertoire.fields
          /\ mem' = [mem EXCEPT ![a].ret = v]
     \/ \E a \in LiveOf({"FIBER"}), p \in LiveOf({"FIBER"}) \cup {NULL} :
          /\ "parent" \in repertoire.fields
          /\ mem' = [mem EXCEPT ![a].parent = p]
     \/ \E a \in LiveOf({"FIBER"}), k \in 1..MaxFrames,
           f \in LiveOf({"FUNCTION"}) \cup {NULL} :
          /\ "func" \in repertoire.fields
          /\ k <= Len(mem[a].frames)
          /\ mem' = [mem EXCEPT ![a].frames[k].func = f]
     \/ \E a \in LiveOf({"FIBER"}), k \in 1..MaxFrames, i \in 1..MaxSlots,
           v \in HostValues :
          /\ "slots" \in repertoire.fields
          /\ k <= Len(mem[a].frames)
          /\ mem' = [mem EXCEPT ![a].frames[k].slots[i] = v]
  /\ mem' # mem
  /\ trace' = << >>
  /\ UNCHANGED <<dst_vm_blocks, dst_vm_next_collection, dst_vm_fiber,
                 dst_vm_cache, crashed, gc, pinlog, sizelog, born, repertoire>>

\* The evaluator registers the active fiber (or none).
SetFiber ==
  /\ ~crashed
  /\ \E f \in LiveOf({"FIBER"}) \cup {NULL} :
       /\ f # dst_vm_fiber
       /\ dst_vm_fiber' = f
  /\ trace' = << >>
  /\ UNCHANGED <<mem, dst_vm_blocks, dst_vm_next_collection, dst_vm_cache, crashed,
                 gc, pinlog, sizelog, born, repertoire>>

\* dst_pin_string .. dst_pin_userdata: set DST_MEM_DISABLED in the header.
dst_gc_pin(m, a) == [m EXCEPT ![a].flags.disabled = TRUE]

\* dst_unpin_string .. dst_unpin_userdata: clear DST_MEM_DISABLED.
dst_gc_unpin(m, a) == [m EXCEPT ![a].flags.disabled = FALSE]

dst_pin(m, x) ==
  IF x.type \in HeapValueTypes THEN dst_gc_pin(m, x.ptr) ELSE m

\* dst_unpin without the case for fibers.
dst_unpin_NoFiberCase(m, x) ==
  IF x.type \in HeapValueTypes \ {"FIBER"} THEN dst_gc_unpin(m, x.ptr) ELSE m

dst_unpin(m, x) ==
  IF x.type \in HeapValueTypes THEN dst_gc_unpin(m, x.ptr) ELSE m

Pin ==
  /\ ~crashed
  /\ \E x \in HostValues :
       /\ mem' = dst_pin(mem, x)
       /\ pinlog' = IF repertoire.log /\ x # Nil
                    THEN [pinlog EXCEPT ![x.ptr] =
                            [pin |-> "pinned",
                             collects |-> IF @.pin = "pinned" THEN @.collects ELSE 0]]
                    ELSE pinlog
  /\ trace' = << >>
  /\ UNCHANGED <<dst_vm_blocks, dst_vm_next_collection, dst_vm_fiber,
                 dst_vm_cache, crashed, gc, sizelog, born, repertoire>>

Unpin ==
  /\ ~crashed
  /\ \E x \in HostValues :
       /\ mem' = dst_unpin(mem, x)
       /\ pinlog' = IF repertoire.log /\ x # Nil /\ pinlog[x.ptr].pin = "pinned"
                    THEN [pinlog EXCEPT ![x.ptr].pin = "unpinned"] ELSE pinlog
  /\ trace' = << >>
  /\ UNCHANGED <<dst_vm_blocks, dst_vm_next_collection, dst_vm_fiber,
                 dst_vm_cache, crashed, gc, sizelog, born, repertoire>>

\* What following a pointer that is not a live block of the expected kind
\* can do to a collection.
WildOutcomes == {"header", "follow", "crash"}

\* The sweep wrote into a block it had freed.
WroteFreed(t) == \E i \in 1..Len(t) : t[i].op = "write_after_free"

\* Whether the process is dead after a sweep with trace t: a write into a
\* block just freed does nothing that shows, or damages the allocator's own
\* data and kills the process.
FreedWriteOutcomes(t) == IF WroteFreed(t) THEN BOOLEAN ELSE {FALSE}

\* The first call of the mark phase: if (dst_vm_fiber) dst_mark_fiber(dst_vm_fiber).
MarkRoot(m, fiber, mode) ==
  IF fiber # NULL THEN dst_mark_fiber(MarkState(m, mode), fiber)
  ELSE MarkState(m, mode)

\* The mark phase of dst_collect, run to its end.
MarkPhase(m, fiber, mode) == MarkLoop(MarkRoot(m, fiber, mode))

\* What a collection started in this state can do: the outcomes differ only
\* if its mark phase follows a pointer that is not a live block of the
\* expected kind.
CollectOutcomes ==
  IF MarkPhase(mem, dst_vm_fiber, "crash").ub THEN WildOutcomes ELSE {"crash"}

\* The rest of dst_collect without the reset of the counter.
SweepPhase_NoReset(marked, head, cache) ==
  LET t0 == IF marked.ub THEN <<Event("collect", NULL, ""), Event("wild_read", NULL, "")>>
            ELSE <<Event("collect", NULL, "")>>
  IN [swept |-> dst_sweep(SweepState(marked.mem, head, cache, t0)),
      ub |-> marked.ub,
      next_collection |-> dst_vm_next_collection]

\* The rest of dst_collect once marking is over: sweep, reset the counter.
SweepPhase(marked, head, cache) ==
  LET t0 == IF marked.ub THEN <<Event("collect", NULL, ""), Event("wild_read", NULL, "")>>
            ELSE <<Event("collect", NULL, "")>>
  IN [swept |-> dst_sweep(SweepState(marked.mem, head, cache, t0)),
      ub |-> marked.ub,
      next_collection |-> U32(0, 0)]

\* dst_collect(): mark from the active fiber, sweep, reset the counter.
dst_collect(m, head, cache, fiber, mode) ==
  SweepPhase(MarkPhase(m, fiber, mode), head, cache)

\* The blocks of a sequence that are allocated in memory m.
StillAllocated(blocks, m) ==
  LET Is(b) == Allocated(m, b) IN SelectSeq(blocks, Is)

Collect ==
  /\ ~crashed
  /\ \E mode \in CollectOutcomes :
       LET r == dst_collect(mem, dst_vm_blocks, dst_vm_cache, dst_vm_fiber, mode) IN
       IF r.ub /\ mode = "crash"
       THEN /\ crashed' = TRUE
            /\ trace' = <<Event("collect", NULL, ""), Event("wild_read", NULL, "")>>
            /\ UNCHANGED <<mem, dst_vm_blocks, dst_vm_next_collection, dst_vm_cache,
                           pinlog, sizelog, born>>
       ELSE /\ mem' = r.swept.mem
            /\ dst_vm_blocks' = r.swept.head
            /\ dst_vm_cache' = r.swept.cache
            /\ trace' = r.swept.trace
            /\ dst_vm_next_collection' = r.next_collection
            /\ crashed' \in FreedWriteOutcomes(r.swept.trace)
            /\ pinlog' = [a \in Addr |->
                            IF pinlog[a].pin = "pinned" /\ pinlog[a].collects < MaxLogged
                            THEN [pinlog[a] EXCEPT !.collects = @ + 1]
                            ELSE pinlog[a]]
            /\ sizelog' = << >>
            /\ born' = StillAllocated(born, r.swept.mem)
  /\ UNCHANGED <<dst_vm_fiber, gc, repertoire>>

\* dst_clear_memory without the reset of the head.
dst_clear_memory_KeepsHead(m, head, cache) ==
  ClearLoop(SweepState(m, head, cache, <<Event("clear_memory", NULL, "")>>), head)

\* dst_clear_memory(): finalize and free every block, clear the head.
dst_clear_memory(m, head, cache) ==
  LET st == ClearLoop(SweepState(m, head, cache, <<Event("clear_memory", NULL, "")>>), head)
  IN [st EXCEPT !.head = NULL]

ClearMemory ==
  /\ ~crashed
  /\ LET r == dst_clear_memory(mem, dst_vm_blocks, dst_vm_cache) IN
       /\ mem' = r.mem
       /\ dst_vm_blocks' = r.head
       /\ dst_vm_cache' = r.cache
       /\ trace' = r.trace
       /\ born' = StillAllocated(born, r.mem)
  /\ UNCHANGED <<dst_vm_next_collection, dst_vm_fiber, crashed, gc, pinlog, sizelog,
                 repertoire>>

Next == Alloc \/ Store \/ SetFiber \/ Pin \/ Unpin \/ Collect \/ ClearMemory

Spec == Init /\ [][Next]_vars

\* ------------------------------------------------------------------ reachability
\* The addresses held in the pointer payloads of a sequence of values.
PtrsOf(values) ==
  {values[i].ptr : i \in {j \in 1..Len(values) : values[j].type \in HeapValueTypes}}

\* The outgoing references of the block at a, by its kind.
Refs(m, a) ==
  LET b == m[a]
      t == b.flags.type
  IN CASE t \in {"ARRAY", "TABLE", "TUPLE", "STRUCT"} -> PtrsOf(b.data)
       [] t = "FUNCENV" -> IF b.offset # 0 THEN {b.fiber} ELSE PtrsOf(b.data)
       [] t = "FUNCDEF" ->
            IF b.hasConstants
            THEN {b.constants[i].ptr :
                    i \in {j \in 1..Len(b.constants) :
                             b.constants[j].type \in HeapValueTypes \cup {"BOOLEAN"}}}
            ELSE {}
       [] t = "FUNCTION" ->
            {b.def} \cup
            (IF b.hasEnvs THEN {b.envs[i] : i \in 1..Len(b.envs)} \ {NULL} ELSE {})
       [] t = "FIBER" ->
            ({b.frames[k].func : k \in 1..Len(b.frames)} \ {NULL})
            \cup UNION {PtrsOf(b.frames[k].slots) : k \in 1..Len(b.frames)}
            \cup ({b.parent} \ {NULL})
            \cup PtrsOf(<<b.ret>>)
       [] OTHER -> {}

RECURSIVE ReachFrom(_, _)
\* The live blocks reachable from the blocks S by following references.
ReachFrom(m, S) ==
  LET N == S \cup {x \in UNION {Refs(m, a) : a \in S} : Allocated(m, x)}
  IN IF N = S THEN S ELSE ReachFrom(m, N)


\* The block dst_vm_fiber points at, when it points at one.
ActiveRoots == IF Allocated(mem, dst_vm_fiber) THEN {dst_vm_fiber} ELSE {}

\* The blocks reachable from the active fiber.
Rooted == ReachFrom(mem, ActiveRoots)

Pinned == {a \in Live : mem[a].flags.disabled}

\* Nothing refers to the block at v: not the root, not a field of a live block.
NoRef(v) == v # dst_vm_fiber /\ \A a \in Live : v \notin Refs(mem, a)

\* ------------------------------------------------------------------ other hosts
\* The API without dst_clear_memory: any sequence of alloc, store, pin, unpin
\* and collect.
NextCollect == Alloc \/ Store \/ SetFiber \/ Pin \/ Unpin \/ Collect

SpecCollect == Init /\ [][NextCollect]_vars

\* Hosts that keep the pin log, one block kind of every pinnable layout.
Logging(h) == [h EXCEPT !.log = TRUE]
PinRepertoires ==
  {Logging(Host({"FIBER", "ARRAY", "TABLE"}, {"ret"}, SmallPool, {Huge})),
   Logging(Host({"STRING", "SYMBOL", "TUPLE", "STRUCT"}, {}, SmallPool, {Huge})),
   Logging(Host({"BUFFER", "USERDATA", "FUNCTION", "FUNCDEF"}, {}, SmallPool, {Huge}))}

InitPin == InitWith(PinRepertoires)

SpecPin == InitPin /\ [][Next]_vars

\* Hosts that keep count of the sizes they asked for since the last
\* collect(); they never call dst_clear_memory.
Counting(h) == [h EXCEPT !.count = TRUE]
CountRepertoires ==
  {Counting(Host({"FIBER"}, {"ret"}, Pool, {Small, Huge})),
   Counting(Host({"BUFFER"}, {}, Pool, {Small, Huge}))}

InitCount == InitWith(CountRepertoires)

SpecCount == InitCount /\ [][NextCollect]_vars

\* Hosts with longer lists: one that has every address for blocks it can
\* only pin, one whose blocks refer to each other.
ListRepertoires ==
  {Host({"BUFFER"}, {}, MaxAddr, {Huge}),
   Host({"FIBER", "ARRAY"}, {"ret"}, SmallPool, {Huge})}

InitList == InitWith(ListRepertoires)

SpecList == InitList /\ [][Next]_vars

\* The threshold: a global the host may set, zero until it does; gc.c itself
\* neither reads nor writes it.
dst_vm_memory_interval == repertoire.interval

\* Hosts that set the threshold to 0 and to 2^30 bytes.
Threshold(h, v) == [h EXCEPT !.interval = v]
RunRepertoires ==
  {Threshold(Host({"FIBER"}, {"ret"}, SmallPool, {Small, Huge}), U32(0, 0)),
   Threshold(Host({"BUFFER", "ARRAY"}, {}, SmallPool, {Small, Huge}), U32(1, 0))}

InitRun == InitWith(RunRepertoires)

\* What the evaluator does of its own accord: it keeps executing
\* instructions, which allocate, store, pin and unpin.  Nothing in gc.c
\* calls dst_collect or dst_clear_memory: they run when the host chooses to
\* call them.
EvaluatorStep == Alloc \/ Store \/ SetFiber \/ Pin \/ Unpin

SpecRun == InitRun /\ [][Next]_vars /\ WF_vars(EvaluatorStep)

\* ------------------------------------------------------------------ marking, call by call
\* The heaps marking is run on, call by call: the kind of the block at each
\* address (the active fiber at address 1) and the reference fields in use.
\* Every reference field holds any well-typed reference to any block of the
\* heap, so the graphs include every cycle over these blocks.
Shape(k, f) == [kinds |-> k, fields |-> f]
MarkShapes ==
  {Shape(<<"FIBER", "FUNCTION", "FUNCDEF", "FUNCDEF">>, {"func", "constants"}),
   Shape(<<"FIBER", "FUNCTION", "FUNCDEF", "FUNCENV">>, {"func", "envs"}),
   Shape(<<"FIBER", "FIBER", "TABLE">>, {"parent", "ret"}),
   Shape(<<"FIBER", "ARRAY", "TUPLE", "STRUCT">>, {"ret"}),
   Shape(<<"FIBER", "STRING", "BUFFER", "USERDATA">>, {"slots", "ret"})}

KindAt(sh, a) == IF a <= Len(sh.kinds) THEN sh.kinds[a] ELSE "NONE"
Of(sh, K) == {a \in Addr : KindAt(sh, a) \in K}
ValuesIn(sh) == {Nil} \cup {Value(KindAt(sh, a), a) : a \in Of(sh, HeapValueTypes)}

\* The bodies the block at address a can have in a heap of shape sh.  A tuple
\* or struct is built from values that exist already: it refers to another
\* tuple or struct only at a higher address.
Bodies(sh, a) ==
  LET t == KindAt(sh, a)
      on(f) == f \in sh.fields
      envlen == IF on("envs") THEN MaxSlots ELSE 0
  IN CASE t \in {"ARRAY", "TABLE"} ->
            {[Block(t) EXCEPT !.data = d] : d \in [1..MaxSlots -> ValuesIn(sh)]}
       [] t \in {"TUPLE", "STRUCT"} ->
            {[Block(t) EXCEPT !.data = d] :
               d \in [1..MaxSlots ->
                        {v \in ValuesIn(sh) : v.type \in {"TUPLE", "STRUCT"} => v.ptr > a}]}
       [] t = "FUNCDEF" ->
            {[Block(t) EXCEPT !.environments_length = envlen]} \cup
            {[Block(t) EXCEPT !.environments_length = envlen,
                              !.hasConstants = TRUE, !.constants = c] :
               c \in IF on("constants")
                     THEN [1..MaxSlots ->
                             ValuesIn(sh) \cup {Value("BOOLEAN", d) : d \in Of(sh, {"FUNCDEF"})}]
                     ELSE {}}
       [] t = "FUNCTION" ->
            {[Block(t) EXCEPT !.def = d] : d \in Of(sh, {"FUNCDEF"})} \cup
            {[Block(t) EXCEPT !.def = d, !.hasEnvs = TRUE, !.envs = e] :
               d \in Of(sh, {"FUNCDEF"}),
               e \in IF on("envs")
                     THEN [1..envlen -> Of(sh, {"FUNCENV"}) \cup {NULL}]
                     ELSE {}}
       [] t = "FUNCENV" ->
            {[Block(t) EXCEPT !.data = d] : d \in [1..MaxSlots -> ValuesIn(sh)]} \cup
            {[Block(t) EXCEPT !.offset = 1, !.fiber = f] : f \in Of(sh, {"FIBER"})}
       [] t = "FIBER" ->
            {[Block(t) EXCEPT !.frames = fr, !.parent = p, !.ret = r] :
               fr \in IF on("func") \/ on("slots")
                      THEN {<<Frame(f, s)>> :
                              f \in IF on("func") THEN Of(sh, {"FUNCTION"}) \cup {NULL}
                                    ELSE {NULL},
                              s \in IF on("slots") THEN [1..MaxSlots -> ValuesIn(sh)]
                                    ELSE {NilSlots}}
                      ELSE {<< >>},
               p \in IF on("parent") THEN Of(sh, {"FIBER"}) \cup {NULL} ELSE {NULL},
               r \in IF on("ret") THEN ValuesIn(sh) ELSE {Nil}}
       [] OTHER -> {Block(t)}

RECURSIVE HeapsUpTo(_, _)
\* The bodies of the blocks at addresses 1..n, in every combination.
HeapsUpTo(sh, n) ==
  IF n = 0 THEN {<< >>}
  ELSE {Append(h, b) : h \in HeapsUpTo(sh, n - 1), b \in Bodies(sh, n)}

\* The allocation list of a heap allocated in address order: each block's
\* next is the block allocated before it.
Below(h, a) == {b \in 1..(a - 1) : h[b].flags.type # "NONE"}
Top(S) == IF S = {} THEN NULL ELSE CHOOSE a \in S : \A b \in S : b <= a
Linked(h) == [a \in Addr |-> [h[a] EXCEPT !.next = Top(Below(h, a))]]

InitMark ==
  \E sh \in MarkShapes : \E h \in HeapsUpTo(sh, MaxAddr) :
    /\ mem = Linked(h)
    /\ dst_vm_blocks = Top(Below(h, MaxAddr + 1))
    /\ dst_vm_next_collection = U32(0, 0)
    /\ dst_vm_fiber = 1
    /\ dst_vm_cache = {Value(KindAt(sh, a), a) : a \in Of(sh, InternedTypes)}
    /\ trace = << >>
    /\ crashed = FALSE
    /\ gc = Idle
    /\ pinlog = [a \in Addr |-> NoLog]
    /\ sizelog = << >>
    /\ born = Reverse(BlockList)
    /\ repertoire = Host({}, sh.fields, 0, {})

\* dst_collect() is entered: the first call of the mark phase.
MarkBegin ==
  /\ gc.mode = "idle"
  /\ trace = << >>
  /\ gc' = MarkRoot(mem, dst_vm_fiber, "header")
  /\ UNCHANGED <<mem, dst_vm_blocks, dst_vm_next_collection, dst_vm_fiber,
                 dst_vm_cache, trace, crashed, pinlog, sizelog, born, repertoire>>

\* The next pending call of the mark phase is made.
MarkCall ==
  /\ gc.mode # "idle"
  /\ gc.work # << >>
  /\ \A a \in Addr : gc.marks[a] <= MaxMarks
  /\ gc' = MarkStep(gc)
  /\ UNCHANGED <<mem, dst_vm_blocks, dst_vm_next_collection, dst_vm_fiber,
                 dst_vm_cache, trace, crashed, pinlog, sizelog, born, repertoire>>

\* No call is pending: the mark phase is over, dst_collect sweeps and returns.
MarkEnd ==
  /\ gc.mode # "idle"
  /\ gc.work = << >>
  /\ LET r == SweepPhase(gc, dst_vm_blocks, dst_vm_cache) IN
       /\ crashed' \in FreedWriteOutcomes(r.swept.trace)
       /\ mem' = r.swept.mem
       /\ dst_vm_blocks' = r.swept.head
       /\ dst_vm_cache' = r.swept.cache
       /\ trace' = r.swept.trace
       /\ dst_vm_next_collection' = r.next_collection
  /\ gc' = Idle
  /\ UNCHANGED <<dst_vm_fiber, pinlog, sizelog, born, repertoire>>

NextMark == MarkBegin \/ MarkCall \/ MarkEnd

\* dst_collect runs on the one thread of the program: it is entered, and the
\* next pending call of its mark phase is made.
SpecMark == InitMark /\ [][NextMark]_vars /\ WF_vars(MarkBegin) /\ WF_vars(MarkCall)

\* The mark phase is over: no call is pending.
MarkDone == gc.mode # "idle" /\ gc.work = << >>

\* ------------------------------------------------------------------ steps
\* This step is a dst_collect() that returned.
CollectReturned ==
  /\ trace' # << >>
  /\ trace'[1].op = "collect"
  /\ ~crashed'

\* This step is a dst_clear_memory().
ClearReturned == trace' # << >> /\ trace'[1].op = "clear_memory"

\* The state is the one a dst_collect() returned in.
AfterCollect == trace # << >> /\ trace[1].op = "collect" /\ ~crashed

\* Positions of the events `o` on block b in a trace.
At(t, o, b) == {i \in 1..Len(t) : t[i].op = o /\ t[i].blk = b}

\* Every event `o` on block b in the trace comes before every event `p` on it.
Before(t, o, p, b) == \A i \in At(t, o, b), j \in At(t, p, b) : i < j

ListAfter == ListFrom(mem', dst_vm_blocks', MaxAddr + 1)
OnListAfter(b) == \E i \in 1..Len(ListAfter) : ListAfter[i] = b

\* Block b came through the step: still allocated, still on the list, not
\* finalized.
Survives(b) ==
  /\ Allocated(mem', b)
  /\ OnListAfter(b)
  /\ At(trace', "deinit", b) = {}

\* Block b was destroyed by the step: finalized, unlinked and freed.
Destroyed(b) ==
  /\ ~Allocated(mem', b)
  /\ ~OnListAfter(b)
  /\ At(trace', "deinit", b) # {}
  /\ At(trace', "free", b) # {}

\* ------------------------------------------------------------------ claims
\* C1: a block reachable from the active fiber when collect() is called is
\* still on the allocation list and not finalized when that collect() returns,
\* in any state reached by alloc, pin, unpin and collect.
C1_ReachableSurvives ==
  [][CollectReturned => \A b \in Rooted : Survives(b)]_vars

\* C2: collect() destroys exactly the blocks that are unreachable from the
\* active fiber, unpinned and unmarked when it is called.
C2_DestroyedIffUnreachable ==
  [][CollectReturned =>
       \A b \in Live :
         Destroyed(b) <=> (b \notin Rooted /\ ~mem[b].flags.disabled
                           /\ ~mem[b].flags.reachable)]_vars

\* C3: a block that is pinned when collect() is called survives it, rooted or
\* not, with its pinned bit still set; of the unrooted blocks exactly the
\* pinned ones remain.
C3_PinnedSurvive ==
  [][CollectReturned =>
       /\ \A b \in Pinned : Survives(b) /\ mem'[b].flags.disabled
       /\ {b \in Live \ Rooted : Allocated(mem', b)} = Pinned \ Rooted]_vars

\* A collect() returned that kept a pinned unrooted block and freed another
\* block.
C3_Witness ==
  /\ AfterCollect
  /\ \E b \in Pinned \ Rooted : OnList(b)
  /\ \E i \in 1..Len(trace) : trace[i].op = "free"

\* C4: a block referenced, directly or transitively, by a pinned block is
\* still on the list after collect().
C4_PinnedReferentsSurvive ==
  [][CollectReturned => \A b \in ReachFrom(mem, Pinned) : Survives(b)]_vars

\* C5: a block nothing else refers to is pinned exactly from pin(v) to
\* unpin(v); it survives every collect() made while it is pinned and is
\* destroyed by the first collect() after unpin(v), however many collections
\* (none, one or more) were made in between.
C5_PinUnpinCollect ==
  /\ [](\A v \in Live :
          /\ pinlog[v].pin = "pinned" => mem[v].flags.disabled
          /\ pinlog[v].pin = "unpinned" => ~mem[v].flags.disabled)
  /\ [][CollectReturned =>
          \A v \in Live :
            NoRef(v) =>
              /\ pinlog[v].pin = "pinned" => Survives(v)
              /\ pinlog[v].pin = "unpinned" => Destroyed(v)]_vars

\* A collect() returned that freed a block which had been pinned, had come
\* through a collection while pinned, and had then been unpinned.
C5_Witness ==
  /\ AfterCollect
  /\ \E v \in Addr :
       /\ pinlog[v] = [pin |-> "unpinned", collects |-> MaxLogged]
       /\ At(trace, "free", v) # {}

\* C6: for every block of an interned kind freed by collect() or
\* clear_memory(), the interner gets exactly one remove of that value, before
\* the block is freed.
C6_InternedRemoved ==
  [][(CollectReturned \/ ClearReturned) =>
       \A b \in Live :
         (mem[b].flags.type \in InternedTypes /\ At(trace', "free", b) # {}) =>
           /\ Cardinality(At(trace', "cache_remove", b)) = 1
           /\ \A i \in At(trace', "cache_remove", b) : trace'[i].as = mem[b].flags.type
           /\ Before(trace', "cache_remove", "free", b)]_vars

\* C7: the sweeper calls deinit_block exactly once on each block it frees, the
\* call (with what it does) is over before the free, and it is never called on
\* a block that survives.
C7_DeinitOnceBeforeFree ==
  [][CollectReturned =>
       \A b \in Live :
         /\ At(trace', "free", b) # {} =>
              /\ Cardinality(At(trace', "deinit", b)) = 1
              /\ Cardinality(At(trace', "free", b)) = 1
              /\ Before(trace', "deinit", "free", b)
              /\ Before(trace', "cache_remove", "free", b)
              /\ Before(trace', "free_secondary", "free", b)
              /\ Before(trace', "finalize", "free", b)
              /\ ~Allocated(mem', b)
         /\ At(trace', "free", b) = {} =>
              /\ At(trace', "deinit", b) = {}
              /\ Allocated(mem', b)]_vars

\* A collect() returned that freed a block and kept another.
C7_Witness ==
  /\ AfterCollect
  /\ \E i \in 1..Len(trace) : trace[i].op = "free"
  /\ \E b \in Live : At(trace, "deinit", b) = {}

\* C8: when collect() has returned, every block on the allocation list has its
\* reachable bit clear, and so it stays until the next collection.
C8_ReachableClear ==
  \A i \in 1..Len(BlockList) : ~mem[BlockList[i]].flags.reachable

\* A collect() returned that kept a rooted block and a pinned unrooted block.
C8_Witness ==
  /\ AfterCollect
  /\ \E b \in Rooted : OnList(b)
  /\ \E b \in Pinned \ Rooted : OnList(b)

\* The kinds of block with outgoing references.
KindsWithRefs == MemoryTypes \ {"STRING", "SYMBOL", "BUFFER", "USERDATA"}

\* Block a lies on a cycle of references.
OnCycle(a) == a \in ReachFrom(mem, {x \in Refs(mem, a) : Allocated(mem, x)})

\* C9: marking a heap, cyclic or not, comes to an end, and on the way the
\* children of a block with outgoing references are traversed at most once
\* (its header is marked at most once, each marking being followed by the
\* traversal).
C9_MarkTerminates ==
  /\ [](gc.mode # "idle" =>
          \A a \in Live : mem[a].flags.type \in KindsWithRefs => gc.marks[a] <= 1)
  /\ <>MarkDone

\* A mark phase is over that went round a cycle of blocks reachable from the
\* active fiber, and marked a block on it once.
C9_Witness ==
  /\ MarkDone
  /\ \E a \in Rooted : OnCycle(a) /\ a # dst_vm_fiber /\ gc.marks[a] = 1

\* C10: clear_memory() finalizes every block on the list exactly once and then
\* frees it, pinned or not, marked or not, and leaves the head null; called on
\* an empty list it finalizes nothing, frees nothing and changes no state.
C10_ClearMemory ==
  [][ClearReturned =>
       /\ \A b \in Live :
            /\ Cardinality(At(trace', "deinit", b)) = 1
            /\ Cardinality(At(trace', "free", b)) = 1
            /\ Before(trace', "deinit", "free", b)
       /\ \A a \in Addr : ~Allocated(mem', a)
       /\ dst_vm_blocks' = NULL
       /\ dst_vm_blocks = NULL =>
            /\ Len(trace') = 1
            /\ UNCHANGED <<mem, dst_vm_blocks, dst_vm_next_collection,
                           dst_vm_fiber, dst_vm_cache>>]_vars

\* A clear_memory() returned that finalized and freed a pinned block and an
\* unpinned one.
C10_Witness ==
  /\ trace # << >>
  /\ trace[1].op = "clear_memory"
  /\ \E i, j \in 1..Len(trace) :
       /\ trace[i].op = "deinit" /\ trace[i].as = "pinned"
       /\ trace[j].op = "deinit" /\ trace[j].as = ""
  /\ Live = {}

\* This step allocated the block at a.
Allocates(a) == ~Allocated(mem, a) /\ Allocated(mem', a)

\* C11: dst_alloc(type, size) makes a block whose header holds the given type
\* tag with the reachable and the pinned bit zero and whose next is the
\* previous head; the new block is the head, and every other block (so the
\* order and the flags of the rest of the list) is as it was.
C11_AllocLinksAtHead ==
  [][\A a \in Addr :
       Allocates(a) =>
         /\ \E t \in repertoire.kinds : \E body \in NewBodies(t) :
              mem'[a] = [body EXCEPT !.flags = [type |-> t, reachable |-> FALSE,
                                                disabled |-> FALSE],
                                     !.next = dst_vm_blocks]
         /\ dst_vm_blocks' = a
         /\ \A b \in Addr \ {a} : mem'[b] = mem[b]
         /\ ListAfter = <<a>> \o BlockList]_vars

\* A block fresh from dst_alloc heads a list whose second block is pinned and
\* whose third is not.
C11_Witness ==
  /\ trace = << >>
  /\ Len(BlockList) = 3
  /\ ~mem[BlockList[1]].flags.disabled
  /\ mem[BlockList[1]].next = BlockList[2]
  /\ mem[BlockList[2]].flags.disabled
  /\ ~mem[BlockList[3]].flags.disabled

\* The sum of the top parts and of the low parts of a sequence of sizes.
RECURSIVE SumHi(_)
SumHi(sizes) == IF sizes = << >> THEN 0 ELSE Head(sizes).hi + SumHi(Tail(sizes))
RECURSIVE SumLo(_)
SumLo(sizes) == IF sizes = << >> THEN 0 ELSE Head(sizes).lo + SumLo(Tail(sizes))

\* The sum of a sequence of sizes modulo 2^32.
SumMod32(sizes) ==
  U32((SumHi(sizes) + (SumLo(sizes) \div TwoTo30)) % 4, SumLo(sizes) % TwoTo30)

\* This step changed the pinned bit of a block: a pin or an unpin.
PinStep ==
  \E a \in Addr : /\ Allocated(mem, a) /\ Allocated(mem', a)
                  /\ mem'[a].flags.disabled # mem[a].flags.disabled

\* C12: after any sequence of alloc, pin, unpin and collect the counter is the
\* sum, modulo 2^32, of the sizes given to the allocations since the most
\* recent collect(); it is 0 when a collect() returns, and a pin or an unpin
\* leaves it as it was.
C12_CounterIsSum ==
  /\ [](dst_vm_next_collection = SumMod32(sizelog))
  /\ [][/\ CollectReturned => dst_vm_next_collection' = U32(0, 0)
        /\ PinStep => dst_vm_next_collection' = dst_vm_next_collection]_vars

\* Three allocations since the last collect(), one of them pinned: their
\* sizes add up to 2^32 + 1 and the counter has wrapped to 1.
C12_Witness ==
  /\ Len(sizelog) = 3
  /\ SumHi(sizelog) = 4
  /\ SumLo(sizelog) = 1
  /\ dst_vm_next_collection = U32(0, 1)
  /\ \E a \in Live : mem[a].flags.disabled

\* This step is a dst_collect() called with the allocation list empty.
EmptyCollect ==
  /\ dst_vm_blocks = NULL
  /\ trace' # << >>
  /\ trace'[1].op = "collect"

\* The step ran no finalizer and freed nothing.
NothingFinalized ==
  \A i \in 1..Len(trace') :
    trace'[i].op \notin {"deinit", "finalize", "cache_remove", "free_secondary", "free"}

\* C13 (as stated): collect() on an empty allocation list leaves the list
\* head, the allocation counter and the interner exactly as they were and
\* calls no finalizer, in every state in which the list can be empty.
C13_EmptyCollectNoOp ==
  [][EmptyCollect =>
       /\ NothingFinalized
       /\ UNCHANGED <<dst_vm_blocks, dst_vm_next_collection, dst_vm_cache>>]_vars

\* C13 (amended): collect() on an empty allocation list leaves the list head
\* and the interner exactly as they were and calls no finalizer and frees
\* nothing, in every state in which the list can be empty; the allocation
\* counter is not kept: it is 0 when the collect() returns.
C13_EmptyCollectResets ==
  [][EmptyCollect =>
       /\ NothingFinalized
       /\ UNCHANGED <<dst_vm_blocks, dst_vm_cache>>
       /\ \A a \in Addr : ~Allocated(mem', a)
       /\ ~crashed' => dst_vm_next_collection' = U32(0, 0)]_vars

\* A collect() returned on the list that dst_clear_memory emptied after
\* allocations, one of them the fiber that is still registered.
C13_Witness ==
  /\ AfterCollect
  /\ dst_vm_blocks = NULL
  /\ Live = {}
  /\ dst_vm_fiber # NULL
  /\ dst_vm_next_collection = U32(0, 0)
  /\ \A i \in 1..Len(trace) : trace[i].op \in {"collect", "wild_read"}

\* x > y for two uint32_t.
GtU32(x, y) == x.hi > y.hi \/ (x.hi = y.hi /\ x.lo > y.lo)

\* The counter exceeds the threshold.
Exceeds == GtU32(dst_vm_next_collection, dst_vm_memory_interval)

\* The last operation was a dst_collect().
CollectRan == trace # << >> /\ trace[1].op = "collect"

\* C14: once an allocation has made the counter exceed the threshold, a
\* collection runs: the allocator requested it and it is run at the next
\* safe point, whatever the host goes on to do.
C14_ExceedsLeadsToCollect == Exceeds ~> CollectRan

\* C15: the sweep of a collect() touches no block after it has freed it; it
\* clears the reachable bit of the survivors only.
C15_NoUseAfterFree ==
  [][(trace' # << >> /\ trace'[1].op = "collect") =>
       \A i, j \in 1..Len(trace') :
         (i < j /\ trace'[i].op = "free") => trace'[j].blk # trace'[i].blk]_vars

\* The allocation list visits every allocated block once and nothing else
\* (so it ends, and has no cycle).
ListIsHeap ==
  /\ \A i, j \in 1..Len(BlockList) : i # j => BlockList[i] # BlockList[j]
  /\ {BlockList[i] : i \in 1..Len(BlockList)} = Live

\* The blocks of the list that are still allocated after the step, in the
\* order the list had them.
KeptInOrder ==
  LET Kept(b) == Allocated(mem', b) IN SelectSeq(BlockList, Kept)

\* The blocks of the list after the step that were allocated before it.
OldInOrder ==
  LET Old(b) == Allocated(mem, b) IN SelectSeq(ListAfter, Old)

\* C16: after any sequence of alloc, pin, unpin, collect and clear_memory the
\* list from the head is finite and acyclic and holds exactly the blocks
\* allocated and not freed, each once; a step unlinks the blocks it frees,
\* wherever they are on the list (head, last, several in a row), and leaves
\* the others in the order they had.
C16_ListIsExact ==
  /\ []ListIsHeap
  /\ [][OldInOrder = KeptInOrder]_vars

\* A collect() returned that freed three of the four blocks of the list and
\* left the fourth, pinned, as the whole list.
C16_Witness ==
  /\ AfterCollect
  /\ Cardinality({i \in 1..Len(trace) : trace[i].op = "free"}) = 3
  /\ Len(BlockList) = 1
  /\ mem[BlockList[1]].flags.disabled
  /\ mem[BlockList[1]].next = NULL

\* This step is a dst_collect() or a dst_clear_memory().
Reclaims == trace' # << >> /\ trace'[1].op \in {"collect", "clear_memory"}

\* Positions of the frees of the secondary allocation `what` of block b.
SecondaryFrees(t, b, what) ==
  {i \in 1..Len(t) : t[i].op = "free_secondary" /\ t[i].blk = b /\ t[i].as = what}

\* C17: within one collect() or clear_memory() no secondary allocation is
\* freed twice.  An environment still on a fiber's stack (offset # 0) frees
\* nothing; the stack is freed once, by the finalization of the fiber; a
\* detached environment (offset = 0) frees its value array once.
C17_SecondaryFreedOnce ==
  [][Reclaims =>
       /\ \A i, j \in 1..Len(trace') :
            (i # j /\ trace'[i].op = "free_secondary" /\ trace'[j].op = "free_secondary")
              => <<trace'[i].blk, trace'[i].as>> # <<trace'[j].blk, trace'[j].as>>
       /\ \A i \in 1..Len(trace') :
            trace'[i].op = "free_secondary" =>
              /\ \E d \in At(trace', "deinit", trace'[i].blk) : d < i
              /\ \A f \in At(trace', "free", trace'[i].blk) : i < f
       /\ \A b \in LiveOf({"FUNCENV"}) :
            At(trace', "deinit", b) # {} =>
              /\ At(trace', "free_secondary", b) =
                   (IF mem[b].offset = 0 THEN SecondaryFrees(trace', b, "values") ELSE {})
              /\ Cardinality(At(trace', "free_secondary", b)) =
                   (IF mem[b].offset = 0 THEN 1 ELSE 0)
       /\ \A b \in LiveOf({"FIBER"}) :
            At(trace', "deinit", b) # {} =>
              /\ At(trace', "free_secondary", b) = SecondaryFrees(trace', b, "data")
              /\ Cardinality(At(trace', "free_secondary", b)) = 1]_vars

\* One collect() or clear_memory() of a host that has only fibers and
\* environments destroyed a fiber and the environment on its stack: the
\* environment freed nothing, the fiber its stack.
C17_Witness ==
  /\ repertoire.kinds = {"FIBER", "FUNCENV"}
  /\ trace # << >>
  /\ trace[1].op \in {"collect", "clear_memory"}
  /\ \E e, f \in Addr :
       /\ e # f
       /\ At(trace, "deinit", e) # {}
       /\ At(trace, "free_secondary", e) = {}
       /\ At(trace, "deinit", f) # {}
       /\ Cardinality(SecondaryFrees(trace, f, "data")) = 1

\* Block x was allocated before block y (both are allocated).
AllocatedBefore(x, y) ==
  \E i, j \in 1..Len(born) : i < j /\ born[i] = x /\ born[j] = y

\* C18: the allocation list is in reverse order of allocation, and one sweep
\* finalizes in list order: of two blocks freed by the same collect(), the
\* one allocated later is finalized and freed before the other is finalized.
C18_NewestFinalizedFirst ==
  /\ [](BlockList = Reverse(born))
  /\ [][(trace' # << >> /\ trace'[1].op = "collect") =>
          \A x, y \in Live :
            (/\ AllocatedBefore(x, y)
             /\ At(trace', "deinit", x) # {}
             /\ At(trace', "deinit", y) # {})
            => \A i \in At(trace', "deinit", x) :
                 /\ \A j \in At(trace', "deinit", y) : j < i
                 /\ At(trace', "free", y) # {}
                 /\ \A j \in At(trace', "free", y) : j < i]_vars

\* A collect() returned that finalized and freed two blocks of different age
\* and kept a third.
C18_Witness ==
  /\ AfterCollect
  /\ Len(born) = 1
  /\ Cardinality({i \in 1..Len(trace) : trace[i].op = "deinit"}) = 2
  /\ Cardinality({i \in 1..Len(trace) : trace[i].op = "free"}) = 2

\* The active fiber is null or an allocated fiber.
RootIsSound ==
  \/ dst_vm_fiber = NULL
  \/ Allocated(mem, dst_vm_fiber) /\ mem[dst_vm_fiber].flags.type = "FIBER"

\* C19: dst_clear_memory leaves no dangling root: a collect() called after
\* it, with or without allocations in between, starts from a root that is
\* null or an allocated fiber, and so reads no block that was freed.
C19_NoDanglingRoot ==
  [][(trace' # << >> /\ trace'[1].op = "collect") => RootIsSound]_vars

====
